---- MODULE Spec2Model ----
(***************************************************************************)
(* Mood DJ: the mood-playlist store and tools of src/src/tools.ts and the  *)
(* recommend -> confirm -> publish workflow of src/src/workflows.ts.       *)
(*                                                                         *)
(* JavaScript strings are modelled as sequences of non-empty tokens, so    *)
(* that concatenation is \o and the empty string is << >>.  A mood is a    *)
(* sequence of one-character tokens.  The runtime is single threaded:      *)
(* every tool body runs atomically up to its next await, and only          *)
(* createSpotifyPlaylist (one await per fetch) and PlaylistWorkflow.run    *)
(* (one await per step) have await points inside.  getCurrentAgent is      *)
(* taken to yield an agent in every call, and a step that throws ends its  *)
(* workflow run.  A fetch settles in one of three ways: it resolves with a *)
(* success response, it rejects, or it resolves with a non-success status  *)
(* whose body is a JSON error object.                                      *)
(***************************************************************************)
EXTENDS Integers, Sequences, FiniteSets, TLC

VARIABLES globalPlaylists, agentsWithPlaylists, ret, pub, wf

vars == <<globalPlaylists, agentsWithPlaylists, ret, pub, wf>>

----------------------------------------------------------------------------
(* Bounds of the model *)

MaxSongs == 2          \* songs the store holds in all, tools and publisher
MaxWorkflowSongs == 1  \* songs the store holds in all, workflow runs
MaxRecommended == 2    \* longest recommendedSongs list a caller passes
MaxReexecutions == 1   \* times the runtime runs step 3 again within one run

----------------------------------------------------------------------------
(* Values *)

Undefined == "<undefined>"

Agents == {"agent1", "agent2"}

Moods == {<<"H", "i">>, <<"h", "i">>, <<"l", "o">>}

\* the agent and the mood of the publisher and workflow runs that are followed
PublishAgents == {"agent1"}

PublishMoods == {<<"h", "i">>}

PlaylistNames == {<<"mix">>}

SongA == [title |-> "A", artist |-> "x"]

SongB == [title |-> "B", artist |-> Undefined]

Songs == {SongA, SongB}

\* JavaScript truthiness of an optional string
Truthy(v) == v # Undefined /\ v # ""

LowerChar(c) ==
  CASE c = "H" -> "h"
    [] c = "I" -> "i"
    [] c = "L" -> "l"
    [] c = "O" -> "o"
    [] OTHER -> c

toLowerCase(s) == [k \in DOMAIN s |-> LowerChar(s[k])]

Digits == <<"0", "1", "2", "3", "4", "5", "6", "7", "8", "9">>

RECURSIVE NumStr(_)
NumStr(n) ==
  IF n < 10 THEN <<Digits[n + 1]>>
  ELSE NumStr(n \div 10) \o <<Digits[(n % 10) + 1]>>

RECURSIVE Join(_, _)
Join(parts, sep) ==
  IF Len(parts) = 0 THEN << >>
  ELSE IF Len(parts) = 1 THEN parts[1]
  ELSE parts[1] \o <<sep>> \o Join(Tail(parts), sep)

\* encodeURIComponent on the characters the queries contain
EncodeToken(t) == IF t = " " THEN "%20" ELSE t

encodeURIComponent(s) == [k \in DOMAIN s |-> EncodeToken(s[k])]

SeqsUpTo(S, n) == UNION {[1..k -> S] : k \in 0..n}

\* the recommendedSongs lists a caller passes
Recommendable == SeqsUpTo(Songs, MaxRecommended)

\* what a tool's execute gives back: a string, an object, or a thrown error
StringValue(s) == [kind |-> "string", str |-> s, mood |-> << >>, playlist |-> 0]

ObjectValue(prompt, mood, ref) ==
  [kind |-> "object", str |-> prompt, mood |-> mood, playlist |-> ref]

Thrown(name) == [kind |-> "throw", str |-> <<name>>, mood |-> << >>, playlist |-> 0]

NoValue == [kind |-> "none", str |-> << >>, mood |-> << >>, playlist |-> 0]

\* !v for the values the workflow tests
Falsy(v) == v.kind = "none" \/ (v.kind = "string" /\ v.str = << >>)

----------------------------------------------------------------------------
(* PlaylistStore *)

\* "playlists" in agent; agent.playlists is only ever set to globalPlaylists
ensurePlaylists(agents, agent) == agents \cup {agent}

\* agent.playlists as a tool reads it: the one module-level array for every
\* agent that has been through ensurePlaylists, no property before that
agentPlaylists(playlists, agents, agent) ==
  IF agent \in agents THEN playlists ELSE Undefined

\* playlists.find((p) => p.mood.toLowerCase() === mood.toLowerCase()):
\* index of the first match, 0 for undefined
\* a comparison that forgets toLowerCase
MoodMatchCaseSensitive(p, mood) == p.mood = mood

MoodMatch(p, mood) == toLowerCase(p.mood) = toLowerCase(mood)

find(playlists, mood) ==
  IF \E k \in DOMAIN playlists : MoodMatch(playlists[k], mood)
  THEN CHOOSE k \in DOMAIN playlists :
         /\ MoodMatch(playlists[k], mood)
         /\ \A j \in 1..(k - 1) : ~MoodMatch(playlists[j], mood)
  ELSE 0

\* a lookup that is skipped: a playlist is made on every call
getOrCreatePlaylistAlwaysCreates(playlists, mood) ==
  [playlists |-> Append(playlists, [mood |-> mood, songs |-> << >>]),
   ref |-> Len(playlists) + 1]

\* a playlist that is found takes the casing of the call
getOrCreatePlaylistRenames(playlists, mood) ==
  LET k == find(playlists, mood) IN
    IF k = 0
    THEN [playlists |-> Append(playlists, [mood |-> mood, songs |-> << >>]),
          ref |-> Len(playlists) + 1]
    ELSE [playlists |-> [playlists EXCEPT ![k].mood = mood], ref |-> k]

\* the store after the call and the index of the playlist it returns
getOrCreatePlaylist(playlists, mood) ==
  LET k == find(playlists, mood) IN
    IF k = 0
    THEN [playlists |-> Append(playlists, [mood |-> mood, songs |-> << >>]),
          ref |-> Len(playlists) + 1]
    ELSE [playlists |-> playlists, ref |-> k]

\* unshift in place of push
pushFront(playlists, ref, items) ==
  [playlists EXCEPT ![ref].songs = items \o @]

\* playlist.songs.push(...items)
push(playlists, ref, items) ==
  [playlists EXCEPT ![ref].songs = @ \o items]

----------------------------------------------------------------------------
(* Tool bodies: the store and the value after execute *)

FormatSong(s) ==
  <<"\"", s.title, "\"">> \o (IF Truthy(s.artist) THEN <<" by ", s.artist>> ELSE << >>)

FormatSongs(songs) == [k \in DOMAIN songs |-> FormatSong(songs[k])]

addSongExecute(playlists, title, artist, mood) ==
  LET g == getOrCreatePlaylist(playlists, mood) IN
    [playlists |-> push(g.playlists, g.ref, <<[title |-> title, artist |-> artist]>>),
     value |-> StringValue(<<"Added \"", title, "\"">>
                 \o (IF Truthy(artist) THEN <<" by ", artist>> ELSE << >>)
                 \o <<" to your \"">> \o mood \o <<"\" playlist.">>)]

getSongsByMoodExecute(playlists, mood) ==
  LET k == find(playlists, mood) IN
    IF k = 0
    THEN Thrown("TypeError")             \* playlist.songs of undefined
    ELSE StringValue(Join(FormatSongs(playlists[k].songs), ", "))

\* the test for a missing playlist without the songs.length === 0 test
recommendSongsExecuteNoEmptyTest(playlists, mood) ==
  LET k == find(playlists, mood) IN
    IF k = 0
    THEN StringValue(<<"You don't have any songs in your \"">> \o mood
                       \o <<"\" playlist yet.">>)
    ELSE ObjectValue(<<"You are recommending songs similar to the user's \"">>
                       \o mood \o <<"\" playlist:">>
                       \o Join([j \in DOMAIN playlists[k].songs |->
                                  <<"- ">> \o FormatSong(playlists[k].songs[j])], "\n")
                       \o <<"Generate 3 similar song recommendations and ask the user: ">>
                       \o <<"Do you want to add them to your ">> \o mood
                       \o <<" playlist? Reply yes or no.">>,
                     mood, k)

\* an object that carries the mood as the playlist is stored under
recommendSongsExecuteStoredMood(playlists, mood) ==
  LET k == find(playlists, mood) IN
    IF k = 0 \/ Len(playlists[k].songs) = 0
    THEN StringValue(<<"You don't have any songs in your \"">> \o mood
                       \o <<"\" playlist yet.">>)
    ELSE ObjectValue(<<"You are recommending songs similar to the user's \"">>
                       \o mood \o <<"\" playlist:">>
                       \o Join([j \in DOMAIN playlists[k].songs |->
                                  <<"- ">> \o FormatSong(playlists[k].songs[j])], "\n")
                       \o <<"Generate 3 similar song recommendations and ask the user: ">>
                       \o <<"Do you want to add them to your ">> \o mood
                       \o <<" playlist? Reply yes or no.">>,
                     playlists[k].mood, k)

recommendSongsExecute(playlists, mood) ==
  LET k == find(playlists, mood) IN
    IF k = 0 \/ Len(playlists[k].songs) = 0
    THEN StringValue(<<"You don't have any songs in your \"">> \o mood
                       \o <<"\" playlist yet.">>)
    ELSE ObjectValue(<<"You are recommending songs similar to the user's \"">>
                       \o mood \o <<"\" playlist:">>
                       \o Join([j \in DOMAIN playlists[k].songs |->
                                  <<"- ">> \o FormatSong(playlists[k].songs[j])], "\n")
                       \o <<"Generate 3 similar song recommendations and ask the user: ">>
                       \o <<"Do you want to add them to your ">> \o mood
                       \o <<" playlist? Reply yes or no.">>,
                     mood, k)

\* a test for the presence of confirm in place of its value
ConfirmPresent(args) == "confirm" \in DOMAIN args

\* args is the object handed to execute; a property it lacks reads as undefined
ConfirmGiven(args) == "confirm" \in DOMAIN args /\ args.confirm = TRUE

confirmAddRecommendedSongsExecute(playlists, agents, agent, args) ==
  IF ~ConfirmGiven(args)
  THEN [playlists |-> playlists, agents |-> agents,
        value |-> StringValue(<<"No songs were added.">>)]
  ELSE LET g == getOrCreatePlaylist(playlists, args.mood) IN
         [playlists |-> push(g.playlists, g.ref, args.recommendedSongs),
          agents |-> ensurePlaylists(agents, agent),
          value |-> StringValue(<<"Added ">> \o NumStr(Len(args.recommendedSongs))
                      \o <<" songs to your \"">> \o args.mood \o <<"\" playlist.">>)]

----------------------------------------------------------------------------
(* createSpotifyPlaylist: one step per await on fetch *)

Outcomes == {"ok", "reject", "httpError"}
\* "reject": fetch rejects (network error).  "httpError": a non-success
\* status whose body is the JSON error object the catalog sends.

SearchOutcomes == {"match", "noMatch", "reject", "httpError"}

Call(kind, url, name, uris) == [kind |-> kind, url |-> url, name |-> name, uris |-> uris]

Response(outcome, uri) == [outcome |-> outcome, uri |-> uri]

IdlePub ==
  [pc |-> "idle", caller |-> "none", mood |-> << >>, playlistName |-> << >>,
   playlist |-> 0, next |-> 0, query |-> << >>, trackUris |-> << >>, calls |-> << >>,
   resps |-> << >>, userId |-> "", created |-> [id |-> "", hasUrls |-> FALSE],
   result |-> NoValue, songsAtStart |-> 0]

Query(song) ==
  IF Truthy(song.artist) THEN <<song.title, " ", song.artist>> ELSE <<song.title>>

\* the return statement: createdPlaylist.external_urls.spotify
PublishReturn(p) ==
  IF p.created.hasUrls
  THEN [p EXCEPT !.pc = "done",
                 !.result = StringValue(<<"Spotify playlist \"">> \o p.playlistName
                              \o <<"\" created! Listen here: ">>
                              \o <<"https://open.spotify.com/playlist/", p.created.id>>)]
  ELSE [p EXCEPT !.pc = "done", !.result = Thrown("TypeError")]

\* the batch call without the trackUris.length > 0 test
PublishAfterLoopAlways(p) ==
  [p EXCEPT !.pc = "awaitAddTracks",
            !.calls = Append(@, Call("addTracks",
                        <<"/v1/playlists/", p.created.id, "/tracks">>,
                        << >>, p.trackUris))]

\* after the loop: the batch call, or straight to the return
PublishAfterLoop(p) ==
  IF Len(p.trackUris) > 0
  THEN [p EXCEPT !.pc = "awaitAddTracks",
                 !.calls = Append(@, Call("addTracks",
                             <<"/v1/playlists/", p.created.id, "/tracks">>,
                             << >>, p.trackUris))]
  ELSE PublishReturn(p)

\* a loop over the songs the playlist held when the call began
PublishLoopSnapshot(p, playlists) ==
  IF p.next < p.songsAtStart
  THEN LET song == playlists[p.playlist].songs[p.next + 1] IN
         [p EXCEPT !.pc = "awaitSearch",
                   !.next = @ + 1,
                   !.query = Query(song),
                   !.calls = Append(@, Call("search",
                               <<"/v1/search?q=">> \o encodeURIComponent(Query(song))
                                 \o <<"&type=track&limit=1">>,
                               << >>, << >>))]
  ELSE PublishAfterLoop(p)

\* for (const song of playlist.songs): the array iterator reads the live
\* array, p.next songs have been taken from it so far
PublishLoop(p, playlists) ==
  IF p.next < Len(playlists[p.playlist].songs)
  THEN LET song == playlists[p.playlist].songs[p.next + 1] IN
         [p EXCEPT !.pc = "awaitSearch",
                   !.next = @ + 1,
                   !.query = Query(song),
                   !.calls = Append(@, Call("search",
                               <<"/v1/search?q=">> \o encodeURIComponent(Query(song))
                                 \o <<"&type=track&limit=1">>,
                               << >>, << >>))]
  ELSE PublishAfterLoop(p)

\* the precondition without the songs.length === 0 test
createSpotifyPlaylistStartNoEmptyTest(playlists, caller, mood, playlistName) ==
  LET k == find(playlists, mood)
      p == [IdlePub EXCEPT !.caller = caller, !.mood = mood,
                           !.playlistName = playlistName, !.playlist = k]
  IN IF k = 0
     THEN [p EXCEPT !.pc = "done",
                    !.result = StringValue(<<"No songs found in your \"">> \o mood
                                 \o <<"\" playlist.">>)]
     ELSE [p EXCEPT !.pc = "awaitMe",
                    !.calls = <<Call("me", <<"/v1/me">>, << >>, << >>)>>]

\* execute up to its first await
createSpotifyPlaylistStart(playlists, caller, mood, playlistName) ==
  LET k == find(playlists, mood)
      p == [IdlePub EXCEPT !.caller = caller, !.mood = mood,
                           !.playlistName = playlistName, !.playlist = k]
  IN IF k = 0 \/ Len(playlists[k].songs) = 0
     THEN [p EXCEPT !.pc = "done", !.playlist = 0,
                    !.result = StringValue(<<"No songs found in your \"">> \o mood
                                 \o <<"\" playlist.">>)]
     ELSE [p EXCEPT !.pc = "awaitMe",
                    !.calls = <<Call("me", <<"/v1/me">>, << >>, << >>)>>]

\* userResp arrives, userData = await userResp.json(), the creation is sent
createSpotifyPlaylistMe(p, outcome) ==
  LET q == [p EXCEPT !.resps = Append(@, Response(outcome, << >>))] IN
    IF outcome = "reject"
    THEN [q EXCEPT !.pc = "done", !.result = Thrown("FetchError")]
    ELSE LET id == IF outcome = "ok" THEN "user1" ELSE "undefined" IN
           [q EXCEPT !.pc = "awaitCreate",
                     !.userId = id,
                     !.calls = Append(@, Call("create",
                                 <<"/v1/users/", id, "/playlists">>,
                                 p.playlistName, << >>))]

\* playlistResp arrives, createdPlaylist = await playlistResp.json(), loop entered
createSpotifyPlaylistCreated(p, playlists, outcome) ==
  LET q == [p EXCEPT !.resps = Append(@, Response(outcome, << >>))] IN
    IF outcome = "reject"
    THEN [q EXCEPT !.pc = "done", !.result = Thrown("FetchError")]
    ELSE PublishLoop([q EXCEPT !.created =
                        IF outcome = "ok" THEN [id |-> "pl1", hasUrls |-> TRUE]
                        ELSE [id |-> "undefined", hasUrls |-> FALSE]],
                     playlists)

\* the uri of the first track the catalog lists for a query
TrackUri(query) == <<"spotify:track:">> \o query

\* track.uri read without the if (track) test
createSpotifyPlaylistSearchedNoTrackTest(p, playlists, outcome) ==
  LET uri == TrackUri(p.query)
      q == [p EXCEPT !.resps =
              Append(@, Response(outcome, IF outcome = "match" THEN uri ELSE << >>))]
  IN CASE outcome = "reject" ->
            [q EXCEPT !.pc = "done", !.result = Thrown("FetchError")]
       [] outcome = "match" ->
            PublishLoop([q EXCEPT !.trackUris = Append(@, uri)], playlists)
       [] OTHER -> [q EXCEPT !.pc = "done", !.result = Thrown("TypeError")]

\* searchResp arrives, searchData.tracks.items[0], next iteration
createSpotifyPlaylistSearched(p, playlists, outcome) ==
  LET uri == TrackUri(p.query)
      q == [p EXCEPT !.resps =
              Append(@, Response(outcome, IF outcome = "match" THEN uri ELSE << >>))]
  IN CASE outcome = "reject" ->
            [q EXCEPT !.pc = "done", !.result = Thrown("FetchError")]
       [] outcome = "httpError" ->       \* searchData.tracks is undefined
            [q EXCEPT !.pc = "done", !.result = Thrown("TypeError")]
       [] outcome = "match" ->
            PublishLoop([q EXCEPT !.trackUris = Append(@, uri)], playlists)
       [] OTHER -> PublishLoop(q, playlists)

\* the add-tracks fetch settles; its response is not looked at
createSpotifyPlaylistAdded(p, outcome) ==
  LET q == [p EXCEPT !.resps = Append(@, Response(outcome, << >>))] IN
    IF outcome = "reject"
    THEN [q EXCEPT !.pc = "done", !.result = Thrown("FetchError")]
    ELSE PublishReturn(q)

----------------------------------------------------------------------------
(* Initial state *)

IdleWf ==
  [pc |-> "idle", agent |-> "none", mood |-> << >>, playlistName |-> << >>,
   recommendedSongs |-> NoValue, confirmArgs |-> [songs |-> NoValue],
   confirmed |-> NoValue, outcome |-> "none", result |-> NoValue,
   reexecutions |-> 0, earlierCalls |-> << >>]

Init ==
  /\ globalPlaylists = << >>
  /\ agentsWithPlaylists = {}
  /\ ret = [op |-> "none", value |-> NoValue]
  /\ pub = IdlePub
  /\ wf = IdleWf

----------------------------------------------------------------------------
(* Tool calls made by the chat agent *)

RECURSIVE TotalSongs(_)
TotalSongs(playlists) ==
  IF playlists = << >> THEN 0
  ELSE Len(Head(playlists).songs) + TotalSongs(Tail(playlists))

\* the store has room for n more songs under the bound cap
Room(n, cap) == TotalSongs(globalPlaylists) + n <= cap

addSong(agent, title, artist, mood) ==
  /\ LET r == addSongExecute(globalPlaylists, title, artist, mood) IN
       /\ globalPlaylists' = r.playlists
       /\ ret' = [op |-> "addSong", value |-> r.value]
  /\ agentsWithPlaylists' = ensurePlaylists(agentsWithPlaylists, agent)
  /\ UNCHANGED <<pub, wf>>

\* a lookup made with getOrCreatePlaylist
getSongsByMoodCreates(agent, mood) ==
  LET g == getOrCreatePlaylist(globalPlaylists, mood) IN
    /\ ret' = [op |-> "getSongsByMood",
               value |-> getSongsByMoodExecute(g.playlists, mood)]
    /\ globalPlaylists' = g.playlists
    /\ agentsWithPlaylists' = ensurePlaylists(agentsWithPlaylists, agent)
    /\ UNCHANGED <<pub, wf>>

getSongsByMood(agent, mood) ==
  /\ ret' = [op |-> "getSongsByMood",
             value |-> getSongsByMoodExecute(globalPlaylists, mood)]
  /\ agentsWithPlaylists' = ensurePlaylists(agentsWithPlaylists, agent)
  /\ UNCHANGED <<globalPlaylists, pub, wf>>

recommendSongs(agent, mood) ==
  /\ ret' = [op |-> "recommendSongs",
             value |-> recommendSongsExecute(globalPlaylists, mood)]
  /\ agentsWithPlaylists' = ensurePlaylists(agentsWithPlaylists, agent)
  /\ UNCHANGED <<globalPlaylists, pub, wf>>

confirmAddRecommendedSongs(agent, confirm, recommendedSongs, mood) ==
  /\ LET r == confirmAddRecommendedSongsExecute(globalPlaylists, agentsWithPlaylists,
                agent, [confirm |-> confirm, recommendedSongs |-> recommendedSongs,
                        mood |-> mood])
     IN /\ globalPlaylists' = r.playlists
        /\ agentsWithPlaylists' = r.agents
        /\ ret' = [op |-> "confirmAddRecommendedSongs", value |-> r.value]
  /\ UNCHANGED <<pub, wf>>

\* one execution of createSpotifyPlaylist is followed at a time
PublishFree == pub.pc \in {"idle", "done"} /\ ~(pub.caller = "workflow" /\ wf.pc = "Publishing")

createSpotifyPlaylist(agent, mood, playlistName) ==
  /\ PublishFree
  /\ pub' = createSpotifyPlaylistStart(globalPlaylists, "agent", mood, playlistName)
  /\ agentsWithPlaylists' = ensurePlaylists(agentsWithPlaylists, agent)
  /\ UNCHANGED <<globalPlaylists, ret, wf>>

\* the same call, with the number of songs the playlist holds as the call
\* begins kept in songsAtStart for the properties to read
createSpotifyPlaylistObserved(agent, mood, playlistName) ==
  /\ PublishFree
  /\ LET k == find(globalPlaylists, mood) IN
       pub' = [createSpotifyPlaylistStart(globalPlaylists, "agent", mood, playlistName)
                 EXCEPT !.songsAtStart =
                          IF k = 0 THEN 0 ELSE Len(globalPlaylists[k].songs)]
  /\ agentsWithPlaylists' = ensurePlaylists(agentsWithPlaylists, agent)
  /\ UNCHANGED <<globalPlaylists, ret, wf>>

FetchMeSettles(outcome) ==
  /\ pub.pc = "awaitMe"
  /\ pub' = createSpotifyPlaylistMe(pub, outcome)
  /\ UNCHANGED <<globalPlaylists, agentsWithPlaylists, ret, wf>>

FetchCreateSettles(outcome) ==
  /\ pub.pc = "awaitCreate"
  /\ pub' = createSpotifyPlaylistCreated(pub, globalPlaylists, outcome)
  /\ UNCHANGED <<globalPlaylists, agentsWithPlaylists, ret, wf>>

\* a loop that takes each song off the list as it searches it
FetchSearchSettlesShifts(outcome) ==
  /\ pub.pc = "awaitSearch"
  /\ pub' = createSpotifyPlaylistSearched(pub, globalPlaylists, outcome)
  /\ globalPlaylists' = [globalPlaylists EXCEPT ![pub.playlist].songs = Tail(@)]
  /\ UNCHANGED <<agentsWithPlaylists, ret, wf>>

FetchSearchSettles(outcome) ==
  /\ pub.pc = "awaitSearch"
  /\ pub' = createSpotifyPlaylistSearched(pub, globalPlaylists, outcome)
  /\ UNCHANGED <<globalPlaylists, agentsWithPlaylists, ret, wf>>

FetchAddTracksSettles(outcome) ==
  /\ pub.pc = "awaitAddTracks"
  /\ pub' = createSpotifyPlaylistAdded(pub, outcome)
  /\ UNCHANGED <<globalPlaylists, agentsWithPlaylists, ret, wf>>

----------------------------------------------------------------------------
(* PlaylistWorkflow.run: one step per step.do *)

WorkflowStart(agent, mood, playlistName) ==
  /\ wf.pc \in {"idle", "Terminated"}
  /\ wf' = [IdleWf EXCEPT !.pc = "Recommend", !.agent = agent, !.mood = mood,
                          !.playlistName = playlistName]
  /\ UNCHANGED <<globalPlaylists, agentsWithPlaylists, ret, pub>>

Terminate(w, outcome, result) ==
  [w EXCEPT !.pc = "Terminated", !.outcome = outcome, !.result = result]

\* step "recommend songs" and the test that follows it
WorkflowRecommend ==
  /\ wf.pc = "Recommend"
  /\ LET v == getSongsByMoodExecute(globalPlaylists, wf.mood)
         w == [wf EXCEPT !.recommendedSongs = v]
     IN wf' = IF v.kind = "throw" THEN Terminate(w, "fatal", v)
              ELSE IF Falsy(v) \/ Len(v.str) = 0
              THEN Terminate(w, "empty",
                     StringValue(<<"No songs found for mood \"">> \o wf.mood \o <<"\".">>))
              ELSE [w EXCEPT !.pc = "Confirm"]
  /\ agentsWithPlaylists' = ensurePlaylists(agentsWithPlaylists, wf.agent)
  /\ UNCHANGED <<globalPlaylists, ret, pub>>

\* step "confirm songs" and the test that follows it
WorkflowConfirm ==
  /\ wf.pc = "Confirm"
  /\ LET args == [songs |-> wf.recommendedSongs]
         r == confirmAddRecommendedSongsExecute(globalPlaylists, agentsWithPlaylists,
                wf.agent, args)
         w == [wf EXCEPT !.confirmArgs = args, !.confirmed = r.value]
     IN /\ wf' = IF Falsy(r.value)
                 THEN Terminate(w, "canceled",
                        StringValue(<<"Playlist creation canceled by user.">>))
                 ELSE [w EXCEPT !.pc = "Publish"]
        /\ globalPlaylists' = r.playlists
        /\ agentsWithPlaylists' = r.agents
  /\ UNCHANGED <<ret, pub>>

\* step "create Spotify playlist" enters the tool
WorkflowPublish ==
  /\ wf.pc = "Publish"
  /\ PublishFree
  /\ pub' = createSpotifyPlaylistStart(globalPlaylists, "workflow", wf.mood,
              wf.playlistName)
  /\ wf' = [wf EXCEPT !.pc = "Publishing"]
  /\ agentsWithPlaylists' = ensurePlaylists(agentsWithPlaylists, wf.agent)
  /\ UNCHANGED <<globalPlaylists, ret>>

\* The runtime was interrupted before it recorded the result of step 3 and
\* runs the step's callback again from its first line: the tool starts over
\* with the mood and the name of the run.  earlierCalls keeps the requests
\* the interrupted executions had sent.
WorkflowPublishReexecuted ==
  /\ wf.pc = "Publishing"
  /\ pub.caller = "workflow"
  /\ wf.reexecutions < MaxReexecutions
  /\ pub' = createSpotifyPlaylistStart(globalPlaylists, "workflow", wf.mood,
              wf.playlistName)
  /\ wf' = [wf EXCEPT !.reexecutions = @ + 1,
                      !.earlierCalls = @ \o pub.calls]
  /\ agentsWithPlaylists' = ensurePlaylists(agentsWithPlaylists, wf.agent)
  /\ UNCHANGED <<globalPlaylists, ret>>

\* a step 3 that is entered again when the tool threw
WorkflowReturnRetries ==
  /\ wf.pc = "Publishing"
  /\ pub.caller = "workflow"
  /\ pub.pc = "done"
  /\ wf' = IF pub.result.kind = "throw"
           THEN [wf EXCEPT !.pc = "Publish"]
           ELSE Terminate(wf, "done", pub.result)
  /\ UNCHANGED <<globalPlaylists, agentsWithPlaylists, ret, pub>>

\* the step settles and run returns its result, or the error goes up
WorkflowReturn ==
  /\ wf.pc = "Publishing"
  /\ pub.caller = "workflow"
  /\ pub.pc = "done"
  /\ wf' = Terminate(wf, IF pub.result.kind = "throw" THEN "fatal" ELSE "done",
                     pub.result)
  /\ UNCHANGED <<globalPlaylists, agentsWithPlaylists, ret, pub>>

----------------------------------------------------------------------------

(* Specifications *)

AddSongCall(A, M, cap) ==
  \E a \in A, s \in Songs, m \in M :
    Room(1, cap) /\ addSong(a, s.title, s.artist, m)

ConfirmCall(A, M, R, cap, C) ==
  \E a \in A, c \in C, rs \in R, m \in M :
    (c => Room(Len(rs), cap)) /\ confirmAddRecommendedSongs(a, c, rs, m)

ReadCall(A, M) ==
  \/ \E a \in A, m \in M : getSongsByMood(a, m)
  \/ \E a \in A, m \in M : recommendSongs(a, m)

PublishCall(A, M) ==
  \E a \in A, m \in M, n \in PlaylistNames : createSpotifyPlaylist(a, m, n)

FetchSettles ==
  \/ \E o \in Outcomes : FetchMeSettles(o)
  \/ \E o \in Outcomes : FetchCreateSettles(o)
  \/ \E o \in SearchOutcomes : FetchSearchSettles(o)
  \/ \E o \in Outcomes : FetchAddTracksSettles(o)

WorkflowRun(A, M) ==
  \/ \E a \in A, m \in M, n \in PlaylistNames : WorkflowStart(a, m, n)
  \/ WorkflowRecommend
  \/ WorkflowConfirm
  \/ WorkflowPublish
  \/ WorkflowReturn

\* the four store tools, called in any order by two agents
NextStore ==
  \/ AddSongCall(Agents, Moods, MaxSongs + 1)
  \/ ConfirmCall(Agents, Moods, Recommendable, MaxSongs + 1, BOOLEAN)
  \/ ReadCall(Agents, Moods)

SpecStore == Init /\ [][NextStore]_vars

\* one publish at a time, the store growing at its await points
NextPublish ==
  \/ AddSongCall(PublishAgents, Moods, MaxSongs)
  \/ ConfirmCall(PublishAgents, Moods, Recommendable, MaxSongs, {TRUE})
  \/ PublishCall(PublishAgents, PublishMoods)
  \/ FetchSettles

SpecPublish == Init /\ [][NextPublish]_vars

\* the five tools, a publish suspended at its await points among them
NextAgent ==
  \/ AddSongCall(PublishAgents, Moods, MaxSongs)
  \/ ConfirmCall(PublishAgents, Moods, Recommendable, MaxSongs, {TRUE})
  \/ ConfirmCall(PublishAgents, Moods, {<< >>, <<SongA>>}, MaxSongs, {FALSE})
  \/ ReadCall(PublishAgents, Moods)
  \/ PublishCall(PublishAgents, PublishMoods)
  \/ FetchSettles

SpecAgent == Init /\ [][NextAgent]_vars

\* workflow runs, the store growing at their await points
NextWorkflow ==
  \/ AddSongCall(PublishAgents, Moods, MaxWorkflowSongs)
  \/ ConfirmCall(PublishAgents, Moods, Recommendable, MaxWorkflowSongs, {TRUE})
  \/ WorkflowRun(PublishAgents, PublishMoods)
  \/ FetchSettles

SpecWorkflow == Init /\ [][NextWorkflow]_vars

\* workflow runs beside addSong calls for their mood; the runtime carries a run on from step
\* to step and every request settles
NextWorkflowFair ==
  \/ AddSongCall(PublishAgents, PublishMoods, MaxSongs)
  \/ WorkflowRun(PublishAgents, PublishMoods)
  \/ FetchSettles

SpecWorkflowFair ==
  /\ Init /\ [][NextWorkflowFair]_vars
  /\ WF_vars(WorkflowRecommend)
  /\ WF_vars(WorkflowConfirm)
  /\ WF_vars(WorkflowPublish)
  /\ WF_vars(WorkflowReturn)
  /\ WF_vars(FetchSettles)

\* publishes of one mood, each with its songsAtStart, beside addSong calls
\* for that mood
NextObserved ==
  \/ AddSongCall(PublishAgents, PublishMoods, MaxSongs)
  \/ \E a \in PublishAgents, m \in PublishMoods, n \in PlaylistNames :
       createSpotifyPlaylistObserved(a, m, n)
  \/ FetchSettles

SpecObserved == Init /\ [][NextObserved]_vars

\* the workflow under a runtime that may run step 3 again after an
\* interruption
NextDurable ==
  \/ NextWorkflow
  \/ WorkflowPublishReexecuted

SpecDurable == Init /\ [][NextDurable]_vars

\* the whole system
Next ==
  \/ AddSongCall(Agents, Moods, MaxSongs)
  \/ ConfirmCall(Agents, Moods, Recommendable, MaxSongs, BOOLEAN)
  \/ ReadCall(Agents, Moods)
  \/ PublishCall(Agents, Moods)
  \/ FetchSettles
  \/ WorkflowRun(Agents, Moods)

Spec == Init /\ [][Next]_vars

----------------------------------------------------------------------------
(* Vocabulary of the properties *)

Same(m1, m2) == toLowerCase(m1) = toLowerCase(m2)

Has(playlists, m) == \E k \in DOMAIN playlists : Same(playlists[k].mood, m)

SongsFor(playlists, m) ==
  IF Has(playlists, m)
  THEN playlists[CHOOSE k \in DOMAIN playlists : Same(playlists[k].mood, m)].songs
  ELSE << >>

IsPrefix(s, t) == Len(s) <= Len(t) /\ SubSeq(t, 1, Len(s)) = s

Hi == <<"H", "i">>
hi == <<"h", "i">>
lo == <<"l", "o">>

NoSongsAdded == <<"No songs were added.">>

AddedSongs(n, m) ==
  <<"Added ">> \o NumStr(n) \o <<" songs to your \"">> \o m \o <<"\" playlist.">>

NoSongsFound(m) == <<"No songs found in your \"">> \o m \o <<"\" playlist.">>

IsSuccess(p) ==
  /\ p.pc = "done"
  /\ p.result.kind = "string"
  /\ p.result.str = <<"Spotify playlist \"">> \o p.playlistName
                      \o <<"\" created! Listen here: ">>
                      \o <<"https://open.spotify.com/playlist/", p.created.id>>

Failed(r) == r.outcome \in {"reject", "httpError"}

NoFailure(p) == \A k \in DOMAIN p.resps : ~Failed(p.resps[k])

IsMatch(r) == r.outcome = "match"

\* the uris of the searches that matched, in the order of the searches
Resolved(p) ==
  LET m == SelectSeq(p.resps, IsMatch) IN [k \in DOMAIN m |-> m[k].uri]

IsSearch(c) == c.kind = "search"
IsAddTracks(c) == c.kind = "addTracks"

SearchUrl(song) ==
  <<"/v1/search?q=">> \o encodeURIComponent(Query(song)) \o <<"&type=track&limit=1">>

----------------------------------------------------------------------------
(* C1  workflows.ts 24-33 *)

\* C1: once the Confirm step has run without a true confirmation (false, or
\* none supplied), the run is Terminated("canceled") and Publish is not
\* entered.
C1_ConfirmGatesPublish ==
  (wf.confirmed.kind # "none" /\ ~ConfirmGiven(wf.confirmArgs))
    => (wf.pc = "Terminated" /\ wf.outcome = "canceled")

----------------------------------------------------------------------------
(* C2  workflows.ts 15-22 *)

\* C2: a Recommend step that finds the mood's playlist absent or without
\* songs ends the run in Terminated("empty") with a returned string, and no
\* call of the publisher is made.
C2_EmptyMoodEndsEmpty ==
  [][(wf.pc = "Recommend" /\ wf'.pc # "Recommend"
        /\ SongsFor(globalPlaylists, wf.mood) = << >>)
       => (/\ wf'.pc = "Terminated"
           /\ wf'.outcome = "empty"
           /\ wf'.result.kind = "string"
           /\ pub' = pub)]_vars

----------------------------------------------------------------------------
(* C3  tools.ts 31-41 *)

\* C3: no two playlists of the store have moods that are equal ignoring case.
C3_OnePlaylistPerMood ==
  \A i, j \in DOMAIN globalPlaylists :
    i # j => ~Same(globalPlaylists[i].mood, globalPlaylists[j].mood)

\* a song was added under "hi" to the playlist stored as "Hi", beside another
\* playlist, while a publish is suspended on a search
C3_Witness ==
  /\ Len(globalPlaylists) = 2
  /\ Has(globalPlaylists, lo)
  /\ \E k \in DOMAIN globalPlaylists :
       globalPlaylists[k].mood = Hi /\ Len(globalPlaylists[k].songs) = 2
  /\ ret.op = "addSong"
  /\ ret.value.str = <<"Added \"", "A", "\"", " by ", "x", " to your \"">> \o hi
                       \o <<"\" playlist.">>
  /\ pub.pc = "awaitSearch"

----------------------------------------------------------------------------
(* C4  tools.ts 51-57, 128-137 *)

\* C4: in every step each playlist keeps its place and its old songs as a
\* prefix of its new songs; an addSong step puts exactly its song at the end
\* of the mood's list, a confirmed confirmAddRecommendedSongs step puts
\* exactly its songs, in their order, at the end.
C4_AppendOnly ==
  [][/\ Len(globalPlaylists') >= Len(globalPlaylists)
     /\ \A k \in DOMAIN globalPlaylists :
          IsPrefix(globalPlaylists[k].songs, globalPlaylists'[k].songs)
     /\ ret'.op = "addSong" =>
          \A a \in Agents, s \in Songs, m \in Moods :
            addSong(a, s.title, s.artist, m)
              => SongsFor(globalPlaylists', m) = Append(SongsFor(globalPlaylists, m), s)
     /\ (ret'.op = "confirmAddRecommendedSongs" /\ ret'.value.str # NoSongsAdded) =>
          \A m \in Moods, rs \in Recommendable :
            ret'.value.str = AddedSongs(Len(rs), m) =>
              \A a \in Agents :
                confirmAddRecommendedSongs(a, TRUE, rs, m)
                  => SongsFor(globalPlaylists', m) = SongsFor(globalPlaylists, m) \o rs
    ]_vars

\* the same song twice in one playlist, the second added while a publish is
\* suspended on a search
C4_Witness ==
  /\ SongsFor(globalPlaylists, hi) = <<SongA, SongA>>
  /\ ret.op = "addSong"
  /\ pub.pc = "awaitSearch"
  /\ pub.next = 1

----------------------------------------------------------------------------
(* C5  tools.ts 128-129 *)

\* C5: a confirmAddRecommendedSongs step with confirm = false, whatever its
\* mood and recommendedSongs, changes neither the playlists nor any agent's
\* store and returns "No songs were added.".
C5_DeclineChangesNothing ==
  [][(/\ ret'.op = "confirmAddRecommendedSongs"
      /\ \E a \in Agents, rs \in Recommendable, m \in Moods :
           confirmAddRecommendedSongs(a, FALSE, rs, m))
       => /\ globalPlaylists' = globalPlaylists
          /\ agentsWithPlaylists' = agentsWithPlaylists
          /\ ret'.value.kind = "string"
          /\ ret'.value.str = NoSongsAdded
    ]_vars

\* a declined confirmation on a store that has a playlist with songs and lacks
\* one for another mood
C5_Witness ==
  /\ ret.op = "confirmAddRecommendedSongs"
  /\ ret.value.str = NoSongsAdded
  /\ Len(SongsFor(globalPlaylists, hi)) = 2
  /\ ~Has(globalPlaylists, lo)

----------------------------------------------------------------------------
(* C6  tools.ts 128-137 *)

\* C6: a confirmAddRecommendedSongs step with confirm = true leaves the
\* mood's playlist (found ignoring case, made if absent) with its old songs
\* followed by recommendedSongs, and the playlists of the other moods as they
\* were; the count it returns is the number of songs the playlist grew by.
C6_ConfirmAppendsAll ==
  [][(ret'.op = "confirmAddRecommendedSongs" /\ ret'.value.str # NoSongsAdded) =>
       /\ \E m \in Moods, n \in 0..MaxRecommended :
            /\ ret'.value.kind = "string"
            /\ ret'.value.str = AddedSongs(n, m)
            /\ Len(SongsFor(globalPlaylists', m)) = Len(SongsFor(globalPlaylists, m)) + n
       /\ \A m \in Moods, rs \in Recommendable :
            ret'.value.str = AddedSongs(Len(rs), m) =>
              \A a \in Agents :
                confirmAddRecommendedSongs(a, TRUE, rs, m)
                  => /\ Has(globalPlaylists', m)
                     /\ SongsFor(globalPlaylists', m) = SongsFor(globalPlaylists, m) \o rs
                     /\ Len(globalPlaylists') =
                          Len(globalPlaylists) + (IF Has(globalPlaylists, m) THEN 0 ELSE 1)
                     /\ \A k \in DOMAIN globalPlaylists :
                          ~Same(globalPlaylists[k].mood, m)
                            => globalPlaylists'[k] = globalPlaylists[k]
    ]_vars

\* two songs confirmed under "hi" went, in order, behind the song of the
\* playlist stored as "Hi"
C6_Witness ==
  /\ ret.op = "confirmAddRecommendedSongs"
  /\ ret.value.str = <<"Added ", "2", " songs to your \"">> \o hi \o <<"\" playlist.">>
  /\ \E k \in DOMAIN globalPlaylists :
       /\ globalPlaylists[k].mood = Hi
       /\ globalPlaylists[k].songs = <<SongB, SongA, SongB>>

----------------------------------------------------------------------------
(* C7  tools.ts 147-156 *)

\* C7: a createSpotifyPlaylist call for a mood whose playlist is absent or
\* has no songs returns "No songs found ..." at once, with no external call
\* issued.
C7_NothingToPublish ==
  [][(pub.pc \in {"idle", "done"} /\ pub' # pub) =>
     \A a \in Agents, m \in Moods, n \in PlaylistNames :
       (createSpotifyPlaylist(a, m, n) /\ SongsFor(globalPlaylists, m) = << >>)
         => /\ pub'.pc = "done"
            /\ pub'.calls = << >>
            /\ pub'.result.kind = "string"
            /\ pub'.result.str = NoSongsFound(m)
    ]_vars

\* the publish of a playlist that exists and has no songs
C7_Witness ==
  /\ pub.pc = "done"
  /\ pub.result.str = NoSongsFound(pub.mood)
  /\ pub.calls = << >>
  /\ Has(globalPlaylists, pub.mood)
  /\ SongsFor(globalPlaylists, pub.mood) = << >>

----------------------------------------------------------------------------
(* C8  tools.ts 183-211 *)

\* C8: the k-th search of a publish asks for the k-th stored song and a match
\* is that song's first track; the tracks collected, and those sent by the
\* add-tracks call, are the matches in the order of the searches; a publish
\* none of whose calls failed ends with the success message, after one
\* add-tracks call if a song matched and after none if no song matched.
C8_AttachesResolvedTracks ==
  /\ pub.trackUris = Resolved(pub)
  /\ pub.playlist # 0 =>
       LET songs == globalPlaylists[pub.playlist].songs
           searches == SelectSeq(pub.calls, IsSearch)
           answers == SubSeq(pub.resps, 3, Len(pub.resps))
       IN /\ Len(searches) <= Len(songs)
          /\ \A k \in DOMAIN searches : searches[k].url = SearchUrl(songs[k])
          /\ \A k \in DOMAIN answers :
               (k <= Len(searches) /\ IsMatch(answers[k]))
                 => answers[k].uri = TrackUri(Query(songs[k]))
  /\ \A k \in DOMAIN pub.calls :
       IsAddTracks(pub.calls[k])
         => pub.calls[k].uris = Resolved(pub) /\ Resolved(pub) # << >>
  /\ (pub.pc = "done" /\ pub.playlist # 0 /\ NoFailure(pub))
       => /\ IsSuccess(pub)
          /\ Len(SelectSeq(pub.calls, IsAddTracks)) =
               (IF Resolved(pub) = << >> THEN 0 ELSE 1)

\* two songs, only the first matched: the playlist was created and one track
\* attached
C8_Witness ==
  /\ IsSuccess(pub)
  /\ globalPlaylists[pub.playlist].songs = <<SongA, SongB>>
  /\ [k \in DOMAIN pub.resps |-> pub.resps[k].outcome]
       = <<"ok", "ok", "match", "noMatch", "ok">>
  /\ pub.calls[5].kind = "addTracks"
  /\ pub.calls[5].uris = <<TrackUri(<<"A", " ", "x">>)>>

----------------------------------------------------------------------------
(* C9  tools.ts 158-211 *)

\* the calls of a publish so far: /me, the creation, the searches of the
\* first songs in stored order, and then at most the add-tracks call
C9_Order(p, playlists) ==
  LET n == p.next
      songs == playlists[p.playlist].songs
  IN /\ n <= Len(songs)
     /\ Len(p.calls) \in {2 + n, 3 + n}
     /\ p.calls[1].kind = "me"
     /\ p.calls[2].kind = "create"
     /\ \A k \in 1..n :
          p.calls[2 + k].kind = "search" /\ p.calls[2 + k].url = SearchUrl(songs[k])
     /\ Len(p.calls) = 3 + n
          => /\ p.calls[3 + n].kind = "addTracks"
             /\ Len(p.resps) >= 2 + n
     /\ (Len(p.calls) = 3 + n) <=> (p.trackUris # << >>)

\* C9: a publish that returns the success message has issued /me, then the
\* creation, then one search per stored song in stored order, then the
\* add-tracks call if and only if a track resolved; the step that leaves the
\* loop has searched every song stored at that moment.
C9_CallOrder ==
  [][/\ IsSuccess(pub') => C9_Order(pub', globalPlaylists')
     /\ (pub.pc \in {"awaitCreate", "awaitSearch"}
           /\ (pub'.pc = "awaitAddTracks" \/ IsSuccess(pub')))
          => /\ pub'.next = Len(globalPlaylists[pub.playlist].songs)
             /\ pub'.next >= 1
    ]_vars

\* a publish of two songs that returned the success message after five calls
C9_Witness ==
  /\ IsSuccess(pub)
  /\ Len(globalPlaylists[pub.playlist].songs) = 2
  /\ [k \in DOMAIN pub.calls |-> pub.calls[k].kind]
       = <<"me", "create", "search", "search", "addTracks">>

----------------------------------------------------------------------------
(* C10  tools.ts 161-211 *)

\* C10: a failed external call (network error or non-success response) is the
\* last call of its publish, and the publish ends with a thrown error.
C10_FailureAborts ==
  \A k \in DOMAIN pub.resps :
    Failed(pub.resps[k])
      => (Len(pub.calls) = k /\ pub.pc = "done" /\ pub.result.kind = "throw")

----------------------------------------------------------------------------
(* C11  tools.ts 147-212 *)

\* C11: every step of a publish (the call that starts it and the settling of
\* each of its requests, whether it carries on, returns "No songs found",
\* returns the success message or throws) leaves the playlists, their moods
\* and their songs as they were.
C11_PublishKeepsStore ==
  [][pub' # pub => globalPlaylists' = globalPlaylists]_vars

\* a publish that threw on its second search, after the playlist was created
\* remotely, beside a store of two songs
C11_Witness ==
  /\ pub.pc = "done"
  /\ pub.result.kind = "throw"
  /\ Len(pub.calls) = 4
  /\ Failed(pub.resps[4])
  /\ Len(SongsFor(globalPlaylists, pub.mood)) = 2

----------------------------------------------------------------------------
(* C12  tools.ts 66-80, workflows.ts 15-22 *)

\* C12: no tool call raises: whatever the store holds (no playlist for the
\* mood, a playlist without songs), the last call made returned a value; in
\* particular getSongsByMood returned a string.
C12_EmptyStatesReturn ==
  /\ ret.value.kind # "throw"
  /\ ret.op = "getSongsByMood" => ret.value.kind = "string"

----------------------------------------------------------------------------
(* C13  tools.ts 90-112 *)

NoSongsYet(m) == <<"You don't have any songs in your \"">> \o m \o <<"\" playlist yet.">>

\* C13: a recommendSongs step returns the "no songs yet" string, and no
\* llm_prompt object, when the store has no playlist for the mood (compared
\* without case) or that playlist has no songs; it returns the object exactly
\* when such a playlist exists and holds at least one song.
C13_RecommendNeedsSongs ==
  [][ret'.op = "recommendSongs" =>
       \A a \in Agents, m \in Moods :
         recommendSongs(a, m)
           => IF SongsFor(globalPlaylists, m) = << >>
              THEN ret'.value.kind = "string" /\ ret'.value.str = NoSongsYet(m)
              ELSE ret'.value.kind = "object"
    ]_vars

\* recommendSongs answered "no songs yet" for a mood whose playlist exists
\* and is empty, in a store that also lacks a playlist for another mood
C13_Witness ==
  /\ ret.op = "recommendSongs"
  /\ ret.value.str = NoSongsYet(Hi)
  /\ Has(globalPlaylists, Hi)
  /\ SongsFor(globalPlaylists, Hi) = << >>
  /\ ~Has(globalPlaylists, lo)

----------------------------------------------------------------------------
(* C14  workflows.ts 36-41, tools.ts 166-181 *)

IsCreate(c) == c.kind = "create"

\* C14: over one workflow run, executions of step 3 that were interrupted
\* and the one in progress or finished taken together, at most one request
\* that creates a remote playlist has been sent.
C14_PublishCreatesOnce ==
  (wf.pc \in {"Publishing", "Terminated"} /\ pub.caller = "workflow")
    => Len(SelectSeq(wf.earlierCalls \o pub.calls, IsCreate)) <= 1

----------------------------------------------------------------------------
(* C15  tools.ts 20-28 *)

\* C15: an addSong or confirmAddRecommendedSongs step made for one agent
\* leaves the playlists that every other agent reads as they were.
C15_StorePerAgent ==
  [][ret'.op \in {"addSong", "confirmAddRecommendedSongs"} =>
       \A a \in Agents :
         (\/ \E s \in Songs, m \in Moods : addSong(a, s.title, s.artist, m)
          \/ \E c \in BOOLEAN, rs \in Recommendable, m \in Moods :
               confirmAddRecommendedSongs(a, c, rs, m))
           => \A b \in Agents \ {a} :
                agentPlaylists(globalPlaylists', agentsWithPlaylists', b)
                  = agentPlaylists(globalPlaylists, agentsWithPlaylists, b)
    ]_vars

----------------------------------------------------------------------------
(* C16  tools.ts 31-41 *)

\* C16: getOrCreatePlaylist on a mood the store has (compared without case)
\* returns that playlist and leaves the store as it is; on a mood the store
\* lacks it adds one playlist stored under the mood as written; a second
\* call under any casing of the mood returns the same playlist and the same
\* store.  No step changes the mood a playlist is stored under.
C16_FirstCasingWins ==
  /\ [](\A m \in Moods :
          LET g == getOrCreatePlaylist(globalPlaylists, m) IN
            /\ Has(globalPlaylists, m)
                 => /\ g.playlists = globalPlaylists
                    /\ Same(globalPlaylists[g.ref].mood, m)
            /\ ~Has(globalPlaylists, m)
                 => /\ Len(g.playlists) = Len(globalPlaylists) + 1
                    /\ g.playlists[g.ref].mood = m
            /\ \A m2 \in Moods :
                 Same(m2, m) => getOrCreatePlaylist(g.playlists, m2) = g)
  /\ [][/\ Len(globalPlaylists') >= Len(globalPlaylists)
        /\ \A k \in DOMAIN globalPlaylists :
             globalPlaylists'[k].mood = globalPlaylists[k].mood
       ]_vars

\* the only playlist was first stored as "hi"; the last call added a song to
\* it under "Hi"
C16_Witness ==
  /\ Len(globalPlaylists) = 1
  /\ globalPlaylists[1].mood = hi
  /\ ret.op = "confirmAddRecommendedSongs"
  /\ ret.value.str = AddedSongs(1, Hi)
  /\ Len(globalPlaylists[1].songs) = 2

----------------------------------------------------------------------------
(* C17  tools.ts 66-72, 90-99, 147-156 *)

StoredMoods(playlists) == [k \in DOMAIN playlists |-> playlists[k].mood]

\* C17: a getSongsByMood step, a recommendSongs step and every step of a
\* publish leave the playlists of the store, one per stored mood, the same;
\* a step that adds a playlist is an addSong step or a
\* confirmAddRecommendedSongs step that was confirmed.
C17_LookupsDoNotCreate ==
  [][/\ (ret'.op \in {"getSongsByMood", "recommendSongs"} \/ pub' # pub)
          => StoredMoods(globalPlaylists') = StoredMoods(globalPlaylists)
     /\ Len(globalPlaylists') > Len(globalPlaylists)
          => /\ pub' = pub
             /\ ret'.op \in {"addSong", "confirmAddRecommendedSongs"}
             /\ ret'.value.str # NoSongsAdded
    ]_vars

\* getSongsByMood was called for a mood the store lacks, after a publish for
\* another mood found no songs; the store holds a playlist and still lacks
\* that mood
C17_Witness ==
  /\ ret.op = "getSongsByMood"
  /\ ret.value.kind = "throw"
  /\ pub.pc = "done"
  /\ pub.result.str = NoSongsFound(pub.mood)
  /\ Len(globalPlaylists) = 1
  /\ ~Has(globalPlaylists, lo)

----------------------------------------------------------------------------
(* C18  workflows.ts 12-44 *)

WorkflowOrder ==
  {<<"idle", "Recommend">>, <<"Terminated", "Recommend">>,
   <<"Recommend", "Confirm">>, <<"Recommend", "Terminated">>,
   <<"Confirm", "Publish">>, <<"Confirm", "Terminated">>,
   <<"Publish", "Publishing">>, <<"Publishing", "Terminated">>}

----------------------------------------------------------------------------
(* C19  tools.ts 90-112 *)

IsTitle(t) == \E s \in Songs : t = s.title

Titles(songs) == [j \in DOMAIN songs |-> songs[j].title]

\* C19: a recommendSongs step for a mood whose playlist holds songs returns
\* an object whose mood is the mood of the call as written, whose playlist is
\* the stored playlist of that mood with all its songs in stored order, and
\* whose prompt names those songs in that order; the step changes no
\* playlist.
C19_RecommendationContext ==
  [][(ret'.op = "recommendSongs" /\ ret'.value.kind = "object") =>
       \A a \in Agents, m \in Moods :
         recommendSongs(a, m)
           => /\ ret'.value.mood = m
              /\ ret'.value.playlist \in DOMAIN globalPlaylists
              /\ Same(globalPlaylists[ret'.value.playlist].mood, m)
              /\ globalPlaylists'[ret'.value.playlist].songs = SongsFor(globalPlaylists, m)
              /\ SelectSeq(ret'.value.str, IsTitle)
                   = Titles(SongsFor(globalPlaylists, m))
              /\ globalPlaylists' = globalPlaylists
    ]_vars

\* recommendSongs was called under "hi" on the playlist stored as "Hi" that
\* holds three songs, one of them twice
C19_Witness ==
  /\ ret.op = "recommendSongs"
  /\ ret.value.kind = "object"
  /\ ret.value.mood = hi
  /\ globalPlaylists[ret.value.playlist].mood = Hi
  /\ globalPlaylists[ret.value.playlist].songs = <<SongB, SongA, SongB>>

----------------------------------------------------------------------------
(* C20  tools.ts 183-195, 51-57 *)

\* C20: a publish takes from its playlist no more songs than the playlist
\* held when the publish began, so a song appended while the publish is
\* suspended is not searched.
C20_PublishesSnapshot == pub.next <= pub.songsAtStart

\* C20 (amended): the step that ends the search loop of a publish has sent
\* one search per song the playlist holds at that step, in stored order,
\* the songs appended since the publish began included; once the loop has
\* ended no search is sent.
C20_PublishesLiveList ==
  [][/\ (pub.pc \in {"awaitCreate", "awaitSearch"}
           /\ (pub'.pc = "awaitAddTracks" \/ IsSuccess(pub')))
          => LET songs == globalPlaylists[pub.playlist].songs
                 searches == SelectSeq(pub'.calls, IsSearch)
             IN /\ Len(songs) >= pub.songsAtStart
                /\ Len(searches) = Len(songs)
                /\ \A j \in DOMAIN songs : searches[j].url = SearchUrl(songs[j])
     /\ pub.pc = "awaitAddTracks"
          => SelectSeq(pub'.calls, IsSearch) = SelectSeq(pub.calls, IsSearch)
    ]_vars

\* a publish that began on one song returned the success message after it
\* searched and attached two, the second appended while it was suspended
C20_Witness ==
  /\ IsSuccess(pub)
  /\ pub.songsAtStart = 1
  /\ pub.next = 2
  /\ Len(pub.trackUris) = 2

====
